---- MODULE Spec2Model ----
(***************************************************************************)
(* r53_record_cleanup.py: prune Route 53 alias records of one hosted zone  *)
(* (delete workflow) and replay a snapshot of them (restore workflow).     *)
(*                                                                         *)
(* Python strings the program operates on (names, zone names, aliases,     *)
(* keep-list entries) are sequences of one-character strings, so that      *)
(* endswith, replace and + are computed as the code computes them.         *)
(* Python dicts are TLA+ records whose DOMAIN is the set of keys present.  *)
(***************************************************************************)
EXTENDS Integers, Sequences, FiniteSets, TLC

(***************************************************************************)
(* Bounds of the model.                                                    *)
(***************************************************************************)
\* Short zones hold at most MaxHead records drawn from RecordUniverse.
MaxHead == 3
\* Long zones hold up to MaxBatches * batch_size + 1 candidate records.
MaxBatches == 2
\* The provider returns at most PageSize records per listing page.
PageSize == 100
\* Invocations of the script in one behaviour of SpecAgain: the first one, then
\* invocations with --restore.
MaxRuns == 2
\* A list handed to expand_keep_list on its own holds at most MaxKeep entries.
MaxKeep == 2
\* expand_keep_list is applied at most MaxApply times in a row to one list.
MaxApply == 2

\* src/r53_record_cleanup.py:134 and :90
batch_size == 100

(***************************************************************************)
(* String helpers.                                                         *)
(***************************************************************************)
\* str.endswith('.')
EndsWithDot(s) == Len(s) > 0 /\ s[Len(s)] = "."

\* "\\052": backslash, 0, 5, 2
Escaped052 == <<"\\", "0", "5", "2">>

RECURSIVE ReplaceStar(_)
\* item.replace('*', "\\052")
ReplaceStar(s) ==
    IF s = <<>> THEN <<>>
    ELSE (IF Head(s) = "*" THEN Escaped052 ELSE <<Head(s)>>) \o ReplaceStar(Tail(s))

DigitChar == <<"0", "1", "2", "3", "4", "5", "6", "7", "8", "9">>

\* Three-digit decimal rendering of i, used to name the records of long zones.
Digits(i) ==
    << DigitChar[((i \div 100) % 10) + 1],
       DigitChar[((i \div 10) % 10) + 1],
       DigitChar[(i % 10) + 1] >>

(***************************************************************************)
(* The provider: the account's hosted zones and the records of the zone.   *)
(***************************************************************************)
ZoneZ == <<"z", ".">>
ZoneY == <<"y", ".">>
TargetT == <<"t", ".">>
OtherO == <<"o", ".">>

\* query['HostedZones'] of list_hosted_zones
HostedZones ==
    << [Id |-> "/hostedzone/ZY", Name |-> ZoneY],
       [Id |-> "/hostedzone/ZZ", Name |-> ZoneZ] >>

AliasTargetOf(zid, dns) ==
    [HostedZoneId |-> zid, DNSName |-> dns, EvaluateTargetHealth |-> FALSE]

HealthCheckedAliasTarget(zid, dns) ==
    [HostedZoneId |-> zid, DNSName |-> dns, EvaluateTargetHealth |-> TRUE]

AliasRecord(name, type, zid, dns) ==
    [Name |-> name, Type |-> type, AliasTarget |-> AliasTargetOf(zid, dns)]

\* A weighted, health-checked alias record: carries fields the change descriptor does not.
WeightedRecord(name, type, zid, dns) ==
    [Name |-> name, Type |-> type, AliasTarget |-> HealthCheckedAliasTarget(zid, dns),
     SetIdentifier |-> <<"s">>, Weight |-> 10]

PlainRecord(name, type) ==
    [Name |-> name, Type |-> type, TTL |-> 300, ResourceRecords |-> <<"1">>]

NameA == <<"a", ".">> \o ZoneZ
NameB == <<"b", ".">> \o ZoneZ
NameK == <<"k", ".">> \o ZoneZ
NameStar == Escaped052 \o <<".">> \o ZoneZ

\* The records short zones are built from, in the provider's listing order.
RecordUniverse ==
    << AliasRecord(NameStar, "A", "ZELB1", TargetT),
       AliasRecord(NameA, "A", "ZELB1", TargetT),
       AliasRecord(NameA, "AAAA", "ZELB1", TargetT),
       PlainRecord(NameB, "A"),
       AliasRecord(NameB, "AAAA", "ZELB1", OtherO),
       WeightedRecord(NameK, "A", "ZELB2", TargetT),
       AliasRecord(<<"o", ".">> \o ZoneZ, "A", "ZELB1", OtherO),
       AliasRecord(ZoneZ, "A", "ZELB1", TargetT) >>

\* Index sets of at most MaxHead records, listed in universe order.
HeadChoices == { S \in SUBSET (1..Len(RecordUniverse)) : Cardinality(S) <= MaxHead }

RECURSIVE PickSeq(_, _)
PickSeq(S, i) ==
    IF i > Len(RecordUniverse) THEN <<>>
    ELSE (IF i \in S THEN <<RecordUniverse[i]>> ELSE <<>>) \o PickSeq(S, i + 1)

FillerName(i) == <<"n">> \o Digits(i) \o <<".">> \o ZoneZ

\* n candidate alias records with distinct names, every 64th followed by a
\* record of another type.
LongZone(n) ==
    LET m == n + (n \div 64)
        at(j) == LET g == (j - 1) \div 65
                     r == (j - 1) % 65
                 IN  IF r = 64
                     THEN AliasRecord(FillerName(g * 64 + 64), "AAAA", "ZELB1", TargetT)
                     ELSE AliasRecord(FillerName(g * 64 + r + 1), "A", "ZELB1", TargetT)
    IN  [j \in 1..m |-> at(j)]

LongSizes == { k * batch_size + d : k \in 1..MaxBatches, d \in {-1, 0, 1} }

ZoneContents ==
    { PickSeq(S, 1) : S \in HeadChoices } \cup { LongZone(n) : n \in LongSizes }

(***************************************************************************)
(* The snapshot file format: yaml.safe_dump / yaml.load(SafeLoader).       *)
(* A document is a block sequence of mappings; a mapping is written as its *)
(* entries in sorted key order, each scalar with the tag its text resolves *)
(* to.  Loading resolves the tags and rebuilds the dicts.                  *)
(***************************************************************************)
\* safe_dump sorts the keys of every mapping.
KeyOrder ==
    << "AliasTarget", "DNSName", "EvaluateTargetHealth", "HostedZoneId", "Name",
       "ResourceRecords", "SetIdentifier", "TTL", "Type", "Weight" >>

SortedKeys(d) == SelectSeq(KeyOrder, LAMBDA k : k \in DOMAIN d)

\* The representer of a scalar: bool -> true/false, int -> digits, str -> text.
DumpScalar(k, v) ==
    CASE k = "EvaluateTargetHealth" ->
            [tag |-> "bool", text |-> IF v THEN "true" ELSE "false"]
      [] k \in {"TTL", "Weight"} -> [tag |-> "int", text |-> v]
      [] OTHER -> [tag |-> "str", text |-> v]

DumpAliasTarget(a) ==
    LET keys == SortedKeys(a)
    IN  [i \in 1..Len(keys) |-> <<keys[i], DumpScalar(keys[i], a[keys[i]])>>]

DumpRecord(r) ==
    LET keys == SortedKeys(r)
    IN  [i \in 1..Len(keys) |->
            <<keys[i],
              IF keys[i] = "AliasTarget"
              THEN [tag |-> "map", entries |-> DumpAliasTarget(r[keys[i]])]
              ELSE DumpScalar(keys[i], r[keys[i]])>>]

\* yaml.safe_dump(to_delete, output_file): an empty list is written as "[]".
safe_dump(list) ==
    IF Len(list) = 0 THEN [kind |-> "flow_empty"]
    ELSE [kind |-> "seq", items |-> [i \in 1..Len(list) |-> DumpRecord(list[i])]]

LoadScalar(node) == IF node.tag = "bool" THEN node.text = "true" ELSE node.text

EntryOf(entries, k) == entries[CHOOSE i \in DOMAIN entries : entries[i][1] = k]

LoadAliasTarget(entries) ==
    [k \in {entries[i][1] : i \in DOMAIN entries} |-> LoadScalar(EntryOf(entries, k)[2])]

LoadRecord(entries) ==
    [k \in {entries[i][1] : i \in DOMAIN entries} |->
        LET node == EntryOf(entries, k)[2]
        IN  IF node.tag = "map" THEN LoadAliasTarget(node.entries) ELSE LoadScalar(node)]

\* yaml.load(record_file, yaml.SafeLoader): the Python value, or the error raised.
yaml_load(doc) ==
    CASE doc.kind = "seq" ->
            [type |-> "list", items |-> [i \in 1..Len(doc.items) |-> LoadRecord(doc.items[i])]]
      [] doc.kind = "flow_empty" -> [type |-> "list", items |-> <<>>]
      [] doc.kind = "flow_map_empty" -> [type |-> "dict", items |-> <<>>]
      [] doc.kind = "empty" -> [type |-> "NoneType", items |-> <<>>]
      [] OTHER -> [type |-> "YAMLError", items |-> <<>>]

(***************************************************************************)
(* Files.  A path is the file's directory, its unique id and its suffix.   *)
(* PreFiles are the files on disk before the first invocation; the script  *)
(* never writes them (temporary names are fresh), so only the files the    *)
(* script creates are kept in the variable fs.                             *)
(***************************************************************************)
NoPath == [dir |-> "", id |-> 0, ext |-> ""]
MissingPath == [dir |-> "home", id |-> 0, ext |-> ".yaml"]
PrePath(k) == [dir |-> "home", id |-> k, ext |-> ".yaml"]

Candidates(n) == SelectSeq(LongZone(n), LAMBDA r : r.Type = "A")

PreFiles ==
    << [kind |-> "empty"],
       [kind |-> "invalid"],
       [kind |-> "flow_map_empty"],
       safe_dump(<<PlainRecord(NameB, "A")>>),
       safe_dump(Candidates(batch_size) \o <<PlainRecord(NameB, "A")>>),
       safe_dump(<<RecordUniverse[6], RecordUniverse[2]>>),
       safe_dump(Candidates(batch_size + (batch_size \div 2))) >>

PrePaths == { PrePath(k) : k \in 1..Len(PreFiles) }

\* os.path.exists(p)
Exists(files, p) == p \in PrePaths \/ p \in DOMAIN files

\* The content open(p).read() finds.
Content(files, p) == IF p \in PrePaths THEN PreFiles[p.id] ELSE files[p]

(***************************************************************************)
(* State.                                                                  *)
(***************************************************************************)
VARIABLES
    pc,                \* position of the running process
    reason,            \* why the process ended, "" while it runs
    run,               \* number of the current invocation
    earlier,           \* what the earlier delete invocations wrote, deleted and ended as
    environ,           \* os.environ: the AWS credential variables that are set
    zone_records,      \* provider: the record sets of zone z., in listing order
    calls,             \* provider: the API calls this process issued, in order
    fs,                \* the files the script has created
    restore_file,      \* args.restore_file
    zone_name,         \* args.zone_name
    target_alias,      \* args.target_alias
    keep_list,         \* args.keep_list
    dryrun,            \* args.dryrun
    KEEP_LIST,         \* the module-level KEEP_LIST
    zone,              \* r53_cleanup: zone
    record_set,        \* get_all_records_in_zone: resource_record_sets
    next_index,        \* the listing cursor (position of NextRecordName)
    to_delete,         \* r53_cleanup: to_delete
    temp_file,         \* r53_cleanup: temp_file.name, then temp_file_yaml
    records,           \* restore_deleted_records: records
    start_record,      \* delete_records / restore_deleted_records: start_record
    records_processed  \* delete_records / restore_deleted_records: records_processed

vars ==
    << pc, reason, run, earlier, environ, zone_records, calls, fs, restore_file, zone_name,
       target_alias, keep_list, dryrun, KEEP_LIST, zone, record_set, next_index,
       to_delete, temp_file, records, start_record, records_processed >>

\* The arguments and locals of one process.
locals ==
    << restore_file, zone_name, target_alias, keep_list, dryrun, KEEP_LIST, zone,
       record_set, next_index, to_delete, temp_file, records, start_record,
       records_processed >>

\* result = None of get_hosted_zone_by_name
NoZone == [Id |-> "None", Name |-> <<>>]

NoValue == [type |-> "unset", items |-> <<>>]

\* A fresh process: no argument read yet, KEEP_LIST = [] (line 11).
FreshProcess ==
    /\ restore_file = NoPath
    /\ zone_name = <<>>
    /\ target_alias = <<>>
    /\ keep_list = <<>>
    /\ dryrun = FALSE
    /\ KEEP_LIST = <<>>
    /\ zone = NoZone
    /\ record_set = <<>>
    /\ next_index = 0
    /\ to_delete = <<>>
    /\ temp_file = NoPath
    /\ records = NoValue
    /\ start_record = 0
    /\ records_processed = 0

Init ==
    /\ pc = "start"
    /\ reason = ""
    /\ run = 1
    /\ earlier = <<>>
    /\ environ = {}
    /\ zone_records \in ZoneContents
    /\ calls = <<>>
    /\ fs = <<>>
    /\ FreshProcess

\* exit(1)
Exit(why) == pc' = "exit1" /\ reason' = why

\* An exception nothing catches: the interpreter prints the traceback and ends.
Crash(why) == pc' = "crashed" /\ reason' = why

Goto(label) == pc' = label /\ reason' = ""

Call(op, zid, changes, ok) ==
    [op |-> op, HostedZoneId |-> zid, Changes |-> changes, ok |-> ok]

(***************************************************************************)
(* __main__ (lines 268-312).  The values of the command line and of the    *)
(* environment are drawn where the script first reads them.                *)
(***************************************************************************)
ZoneNameArgs == { <<>>, <<"z">>, <<"z", ".">>, <<"q">> }
TargetAliasArgs == { <<>>, <<"t">>, <<"t", ".">> }
KeepListArgs == { <<>>, << <<"*">> >>, << <<"*">>, <<"k">> >> }

\* Lines 268-274: AWS_ACCESS_KEY_ID from the environment or --aws-access-key-id.
CheckAccessKey ==
    /\ pc = "start"
    /\ \E present \in BOOLEAN :
          IF present
          THEN environ' = environ \cup {"AWS_ACCESS_KEY_ID"} /\ Goto("check_secret")
          ELSE UNCHANGED environ /\ Exit("no_access_key")
    /\ UNCHANGED <<run, earlier, zone_records, calls, fs, locals>>

\* Lines 276-282: AWS_SECRET_ACCESS_KEY or --aws-secret-access-key.
CheckSecretKey ==
    /\ pc = "check_secret"
    /\ \E present \in BOOLEAN :
          IF present
          THEN environ' = environ \cup {"AWS_SECRET_ACCESS_KEY"} /\ Goto("select_mode")
          ELSE UNCHANGED environ /\ Exit("no_secret_key")
    /\ UNCHANGED <<run, earlier, zone_records, calls, fs, locals>>

\* --restore: absent, a path that does not exist, or a file on disk.  The
\* invocations after the first are invocations with --restore that name a file
\* the script wrote, or no file.
RestoreFileArgs(files, n) ==
    (IF n = 1 THEN {NoPath} \cup PrePaths ELSE {}) \cup {MissingPath} \cup DOMAIN files

\* Line 286: if args.restore_file.
SelectMode ==
    /\ pc = "select_mode"
    /\ \E f \in RestoreFileArgs(fs, run) :
          /\ restore_file' = f
          /\ IF f # NoPath THEN Goto("restore_open") ELSE Goto("check_zone_name")
    /\ UNCHANGED <<run, earlier, environ, zone_records, calls, fs, zone_name, target_alias,
                   keep_list, dryrun, KEEP_LIST, zone, record_set, next_index,
                   to_delete, temp_file, records, start_record, records_processed>>

\* Lines 289-291.
CheckZoneName ==
    /\ pc = "check_zone_name"
    /\ \E z \in ZoneNameArgs :
          /\ zone_name' = z
          /\ IF Len(z) = 0 THEN Exit("no_zone_name") ELSE Goto("check_target_alias")
    /\ UNCHANGED <<run, earlier, environ, zone_records, calls, fs, restore_file, target_alias,
                   keep_list, dryrun, KEEP_LIST, zone, record_set, next_index,
                   to_delete, temp_file, records, start_record, records_processed>>

\* The check of lines 293-295 without exit(1): the run goes on without an alias.
CheckTargetAlias_NoExit ==
    /\ pc = "check_target_alias"
    /\ \E t \in TargetAliasArgs : target_alias' = t
    /\ Goto("keep_list")
    /\ UNCHANGED <<run, earlier, environ, zone_records, calls, fs, restore_file, zone_name,
                   keep_list, dryrun, KEEP_LIST, zone, record_set, next_index,
                   to_delete, temp_file, records, start_record, records_processed>>

\* Lines 293-295.
CheckTargetAlias ==
    /\ pc = "check_target_alias"
    /\ \E t \in TargetAliasArgs :
          /\ target_alias' = t
          /\ IF Len(t) = 0 THEN Exit("no_target_alias") ELSE Goto("keep_list")
    /\ UNCHANGED <<run, earlier, environ, zone_records, calls, fs, restore_file, zone_name,
                   keep_list, dryrun, KEEP_LIST, zone, record_set, next_index,
                   to_delete, temp_file, records, start_record, records_processed>>

\* The expansion without lines 15-16: the zone name is appended as given.
expand_keep_list_undotted(list, name) ==
    [i \in 1..Len(list) |-> list[i] \o <<".">> \o name]

\* Lines 14-17: KEEP_LIST[:] = [x + '.' + zone_name for x in KEEP_LIST]
expand_keep_list(list, name) ==
    LET dotted == IF ~EndsWithDot(name) THEN name \o <<".">> ELSE name
    IN  [i \in 1..Len(list) |-> list[i] \o <<".">> \o dotted]

\* The items appended as given, '*' not replaced.
append_keep_items_unescaped(list, items) == list \o items

\* Lines 299-302: KEEP_LIST.append(item.replace('*', "\\052")) for each item.
append_keep_items(list, items) ==
    list \o [i \in 1..Len(items) |-> ReplaceStar(items[i])]

\* Lines 299-311: build the keep list, then call r53_cleanup.
BuildKeepList ==
    /\ pc = "keep_list"
    /\ \E k \in KeepListArgs :
          /\ keep_list' = k
          /\ LET appended == IF Len(k) > 0 THEN append_keep_items(KEEP_LIST, k)
                             ELSE KEEP_LIST
             IN  KEEP_LIST' = IF Len(appended) > 0
                              THEN expand_keep_list(appended, zone_name)
                              ELSE appended
    /\ Goto("resolve_zone")
    /\ UNCHANGED <<run, earlier, environ, zone_records, calls, fs, restore_file, zone_name,
                   target_alias, dryrun, zone, record_set, next_index,
                   to_delete, temp_file, records, start_record, records_processed>>

(***************************************************************************)
(* get_hosted_zone_by_name (lines 32-51) and get_hosted_zone_list (20-29). *)
(***************************************************************************)
\* Lines 36-41: the zones of the list whose Name equals the dotted zone name.
MatchingZones(list, name) ==
    LET dotted == IF ~EndsWithDot(name) THEN name \o <<".">> ELSE name
    IN  SelectSeq(list, LAMBDA z : dotted = z.Name)

\* Lines 38-41 with 20-29: list_hosted_zones; without a matching zone the
\* result stays None and line 172, zone['Id'], raises TypeError.
ListHostedZones ==
    /\ pc = "resolve_zone"
    /\ \E ok \in BOOLEAN :
          /\ calls' = Append(calls, Call("list_hosted_zones", "", <<>>, ok))
          /\ LET zone_list == IF ok THEN HostedZones ELSE <<>>
             IN  IF Len(MatchingZones(zone_list, zone_name)) > 0
                 THEN Goto("get_zone")
                 ELSE Crash("TypeError")
    /\ UNCHANGED <<run, earlier, environ, zone_records, fs, locals>>

\* The lookup whose failure is not fatal: r53_cleanup goes on without a zone.
GetHostedZone_FailureIgnored ==
    /\ pc = "get_zone"
    /\ LET match == MatchingZones(HostedZones, zone_name)[1]
       IN  \E ok \in BOOLEAN :
              /\ calls' = Append(calls, Call("get_hosted_zone", match.Id, <<>>, ok))
              /\ zone' = IF ok THEN [Id |-> match.Id, Name |-> match.Name] ELSE NoZone
              /\ Goto("list_first")
    /\ UNCHANGED <<run, earlier, environ, zone_records, fs, restore_file, zone_name, target_alias,
                   keep_list, dryrun, KEEP_LIST, record_set, next_index,
                   to_delete, temp_file, records, start_record, records_processed>>

\* Lines 42-50: get_hosted_zone for the matching zone; a ClientError is logged,
\* no other zone matches, the result stays None and line 172 raises TypeError.
GetHostedZone ==
    /\ pc = "get_zone"
    /\ LET match == MatchingZones(HostedZones, zone_name)[1]
       IN  \E ok \in BOOLEAN :
              /\ calls' = Append(calls, Call("get_hosted_zone", match.Id, <<>>, ok))
              /\ IF ok
                 THEN zone' = [Id |-> match.Id, Name |-> match.Name] /\ Goto("list_first")
                 ELSE zone' = NoZone /\ Crash("TypeError")
    /\ UNCHANGED <<run, earlier, environ, zone_records, fs, restore_file, zone_name, target_alias,
                   keep_list, dryrun, KEEP_LIST, record_set, next_index,
                   to_delete, temp_file, records, start_record, records_processed>>

(***************************************************************************)
(* get_all_records_in_zone (lines 54-69).                                  *)
(***************************************************************************)
\* The page the provider returns from position i (0-based) of the zone.
Page(all, i) ==
    LET last == IF i + PageSize < Len(all) THEN i + PageSize ELSE Len(all)
    IN  [ResourceRecordSets |-> SubSeq(all, i + 1, last),
         IsTruncated |-> last < Len(all),
         NextRecordName |-> last]

\* Lines 59-61 and 67-69: the first page; on ClientError the list stays empty.
ListFirstPage ==
    /\ pc = "list_first"
    /\ \E ok \in BOOLEAN :
          /\ calls' = Append(calls, Call("list_resource_record_sets", zone.Id, <<>>, ok))
          /\ IF ok
             THEN LET current_set == Page(zone_records, 0)
                  IN  /\ record_set' = record_set \o current_set.ResourceRecordSets
                      /\ next_index' = current_set.NextRecordName
                      /\ IF current_set.IsTruncated
                         THEN Goto("list_next") ELSE Goto("filter")
             ELSE /\ UNCHANGED <<record_set, next_index>>
                  /\ Goto("filter")
    /\ UNCHANGED <<run, earlier, environ, zone_records, fs, restore_file, zone_name, target_alias,
                   keep_list, dryrun, KEEP_LIST, zone, to_delete, temp_file,
                   records, start_record, records_processed>>

\* Lines 62-69: a later page; on ClientError the pages read so far are returned.
ListNextPage ==
    /\ pc = "list_next"
    /\ \E ok \in BOOLEAN :
          /\ calls' = Append(calls, Call("list_resource_record_sets", zone.Id, <<>>, ok))
          /\ IF ok
             THEN LET current_set == Page(zone_records, next_index)
                  IN  /\ record_set' = record_set \o current_set.ResourceRecordSets
                      /\ next_index' = current_set.NextRecordName
                      /\ IF current_set.IsTruncated
                         THEN Goto("list_next") ELSE Goto("filter")
             ELSE /\ UNCHANGED <<record_set, next_index>>
                  /\ Goto("filter")
    /\ UNCHANGED <<run, earlier, environ, zone_records, fs, restore_file, zone_name, target_alias,
                   keep_list, dryrun, KEEP_LIST, zone, to_delete, temp_file,
                   records, start_record, records_processed>>

(***************************************************************************)
(* r53_cleanup (lines 170-219).                                            *)
(***************************************************************************)
\* record_name not in KEEP_LIST
InList(list, x) == \E i \in 1..Len(list) : list[i] = x

\* The decision without the test of line 183: the apex record is not skipped.
IsToBeDeleted_ApexNotSkipped(record, zone_rec, alias, keep) ==
    /\ record.Type = "A"
    /\ ~(\E i \in 1..Len(keep) : keep[i] = record.Name)
    /\ "AliasTarget" \in DOMAIN record
    /\ record.AliasTarget.DNSName = alias

\* Lines 180-199: the decision for one record.
IsToBeDeleted(record, zone_rec, alias, keep) ==
    /\ record.Type = "A"
    /\ record.Name # zone_rec.Name
    /\ ~InList(keep, record.Name)
    /\ "AliasTarget" \in DOMAIN record
    /\ record.AliasTarget.DNSName = alias

\* Lines 175-199: normalise target_alias, then collect the records to delete.
FilterRecords(set, zone_rec, alias, keep) ==
    LET dotted == IF ~EndsWithDot(alias) THEN alias \o <<".">> ELSE alias
    IN  SelectSeq(set, LAMBDA record : IsToBeDeleted(record, zone_rec, dotted, keep))

\* The filter followed at once by the deletion: no snapshot is written first.
Filter_ThenDelete ==
    /\ pc = "filter"
    /\ to_delete' = FilterRecords(record_set, zone, target_alias, KEEP_LIST)
    /\ Goto("check_dryrun")
    /\ UNCHANGED <<run, earlier, environ, zone_records, calls, fs, restore_file, zone_name,
                   target_alias, keep_list, dryrun, KEEP_LIST, zone, record_set,
                   next_index, temp_file, records, start_record, records_processed>>

Filter ==
    /\ pc = "filter"
    /\ to_delete' = FilterRecords(record_set, zone, target_alias, KEEP_LIST)
    /\ Goto("snapshot_create")
    /\ UNCHANGED <<run, earlier, environ, zone_records, calls, fs, restore_file, zone_name,
                   target_alias, keep_list, dryrun, KEEP_LIST, zone, record_set,
                   next_index, temp_file, records, start_record, records_processed>>

\* tempfile.NamedTemporaryFile picks a name no file has.
TempPath(n) == [dir |-> "tmp", id |-> n, ext |-> ""]

\* temp_file.name + '.yaml'
WithYaml(p) == [p EXCEPT !.ext = p.ext \o ".yaml"]

\* Line 201: the temporary file is created, empty.
SnapshotCreate ==
    /\ pc = "snapshot_create"
    /\ temp_file' = TempPath(run)
    /\ fs' = (TempPath(run) :> [kind |-> "empty"]) @@ fs
    /\ Goto("snapshot_dump")
    /\ UNCHANGED <<run, earlier, environ, zone_records, calls, restore_file, zone_name,
                   target_alias, keep_list, dryrun, KEEP_LIST, zone, record_set,
                   next_index, to_delete, records, start_record, records_processed>>

\* Lines 202-203: the list is dumped and the file closed.
SnapshotDump ==
    /\ pc = "snapshot_dump"
    /\ fs' = [fs EXCEPT ![temp_file] = safe_dump(to_delete)]
    /\ Goto("snapshot_rename")
    /\ UNCHANGED <<run, earlier, environ, zone_records, calls, restore_file, zone_name,
                   target_alias, keep_list, dryrun, KEEP_LIST, zone, record_set,
                   next_index, to_delete, temp_file, records, start_record,
                   records_processed>>

\* Lines 204-205: os.rename(temp_file.name, temp_file_yaml)
SnapshotRename ==
    /\ pc = "snapshot_rename"
    /\ LET temp_file_yaml == WithYaml(temp_file)
       IN  /\ fs' = [p \in (DOMAIN fs \ {temp_file}) \cup {temp_file_yaml} |->
                        IF p = temp_file_yaml THEN fs[temp_file] ELSE fs[p]]
           /\ temp_file' = temp_file_yaml
    /\ Goto("check_dryrun")
    /\ UNCHANGED <<run, earlier, environ, zone_records, calls, restore_file, zone_name,
                   target_alias, keep_list, dryrun, KEEP_LIST, zone, record_set,
                   next_index, to_delete, records, start_record, records_processed>>

\* Lines 201-205: creating, writing or renaming the file raises OSError, which
\* nothing catches; the files are left as they were.
SnapshotFail ==
    /\ pc \in {"snapshot_create", "snapshot_dump", "snapshot_rename"}
    /\ Crash("OSError")
    /\ UNCHANGED <<run, earlier, environ, zone_records, calls, fs, locals>>

\* The test of line 211 dropped: the records are deleted whatever --dryrun says.
CheckDryrun_Ignored ==
    /\ pc = "check_dryrun"
    /\ \E d \in BOOLEAN : dryrun' = d
    /\ Goto("delete_loop")
    /\ start_record' = 0
    /\ records_processed' = 0
    /\ UNCHANGED <<run, earlier, environ, zone_records, calls, fs, restore_file, zone_name,
                   target_alias, keep_list, KEEP_LIST, zone, record_set,
                   next_index, to_delete, temp_file, records>>

\* Lines 208-219: if not dryrun: delete_records(to_delete), else report only.
CheckDryrun ==
    /\ pc = "check_dryrun"
    /\ \E d \in BOOLEAN :
          /\ dryrun' = d
          /\ IF ~d THEN Goto("delete_loop") ELSE Goto("complete")
    /\ start_record' = 0
    /\ records_processed' = 0
    /\ UNCHANGED <<run, earlier, environ, zone_records, calls, fs, restore_file, zone_name,
                   target_alias, keep_list, KEEP_LIST, zone, record_set,
                   next_index, to_delete, temp_file, records>>

(***************************************************************************)
(* delete_records (lines 125-167).                                         *)
(***************************************************************************)
\* record['AliasTarget'][...], record['Type'], record['Name'] raise no KeyError.
HasDescriptorKeys(record) ==
    /\ {"AliasTarget", "Type", "Name"} \subseteq DOMAIN record
    /\ {"HostedZoneId", "EvaluateTargetHealth", "DNSName"} \subseteq DOMAIN record.AliasTarget

\* Lines 138-140.
delete_end_record(start, number_of_records) ==
    IF start + batch_size > number_of_records
    THEN number_of_records ELSE start + batch_size

\* The slice taken one record late: record_list[start_record + 1:end_record:1]
delete_slice_late(record_list, start, end) == SubSeq(record_list, start + 2, end)

\* Line 142: record_list[start_record:end_record:1]
delete_slice(record_list, start, end) == SubSeq(record_list, start + 1, end)

\* Lines 146-155.
delete_change(record) ==
    [Action |-> "DELETE",
     ResourceRecordSet |->
        [AliasTarget |->
            [HostedZoneId |-> record.AliasTarget.HostedZoneId,
             EvaluateTargetHealth |-> record.AliasTarget.EvaluateTargetHealth,
             DNSName |-> record.AliasTarget.DNSName],
         Type |-> record.Type,
         Name |-> record.Name]]

\* The change set built with insert(0, change): the chunk in reverse order.
delete_change_set_reversed(records_to_process) ==
    [i \in 1..Len(records_to_process) |->
        delete_change(records_to_process[Len(records_to_process) + 1 - i])]

\* Lines 145-156.
delete_change_set(records_to_process) ==
    [i \in 1..Len(records_to_process) |-> delete_change(records_to_process[i])]

\* The ClientError logged without exit(1): the loop goes on to the next chunk.
DeleteResponse_KeepsGoing(ok, end_record) ==
    /\ records_processed' = records_processed + (end_record - start_record)
    /\ start_record' = end_record
    /\ Goto("delete_loop")

\* Line 167 lost: records_processed advances, start_record does not.
DeleteResponse_StartNotAdvanced(ok, end_record) ==
    IF ok
    THEN /\ records_processed' = records_processed + (end_record - start_record)
         /\ UNCHANGED start_record
         /\ Goto("delete_loop")
    ELSE /\ Exit("ClientError")
         /\ UNCHANGED <<start_record, records_processed>>

\* Lines 161-167: the batch was accepted and the loop goes on, or the provider
\* raised ClientError and the process exits.
DeleteResponse(ok, end_record) ==
    IF ok
    THEN /\ records_processed' = records_processed + (end_record - start_record)
         /\ start_record' = end_record
         /\ Goto("delete_loop")
    ELSE /\ Exit("ClientError")
         /\ UNCHANGED <<start_record, records_processed>>

\* Lines 135-167: one iteration of the loop.
DeleteBatch ==
    /\ pc = "delete_loop"
    /\ records_processed < Len(to_delete)
    /\ LET end_record == delete_end_record(start_record, Len(to_delete))
           records_to_process == delete_slice(to_delete, start_record, end_record)
       IN  IF \/ Len(records_to_process) = 0
              \/ \E i \in 1..Len(records_to_process) :
                    ~HasDescriptorKeys(records_to_process[i])
           THEN /\ Crash("LookupError")
                /\ UNCHANGED <<calls, start_record, records_processed>>
           ELSE \E ok \in BOOLEAN :
                   /\ calls' = Append(calls,
                         Call("change_resource_record_sets",
                              records_to_process[1].AliasTarget.HostedZoneId,
                              delete_change_set(records_to_process), ok))
                   /\ DeleteResponse(ok, end_record)
    /\ UNCHANGED <<run, earlier, environ, zone_records, fs, restore_file, zone_name,
                   target_alias, keep_list, dryrun, KEEP_LIST, zone, record_set,
                   next_index, to_delete, temp_file, records>>

\* Line 135 false: delete_records returns, lines 215-217 and 312 log COMPLETE.
DeleteDone ==
    /\ pc = "delete_loop"
    /\ ~(records_processed < Len(to_delete))
    /\ Goto("complete")
    /\ UNCHANGED <<run, earlier, environ, zone_records, calls, fs, locals>>

(***************************************************************************)
(* restore_deleted_records (lines 72-121).                                 *)
(***************************************************************************)
\* Lines 76-87: the path must exist; the file is loaded; len(records).
\* A YAML error, or len() of None, is an exception nothing catches.
RestoreOpen ==
    /\ pc = "restore_open"
    /\ IF ~Exists(fs, restore_file)
       THEN Exit("invalid_path") /\ UNCHANGED records
       ELSE LET loaded == yaml_load(Content(fs, restore_file))
            IN  /\ records' = loaded
                /\ IF loaded.type = "YAMLError" THEN Crash("YAMLError")
                   ELSE IF loaded.type = "NoneType" THEN Crash("TypeError")
                   ELSE Goto("restore_loop")
    /\ start_record' = 0
    /\ records_processed' = 0
    /\ UNCHANGED <<run, earlier, environ, zone_records, calls, fs, restore_file, zone_name,
                   target_alias, keep_list, dryrun, KEEP_LIST, zone, record_set,
                   next_index, to_delete, temp_file>>

\* The chunk end as the comment of line 86 has it: 50 records at a time.
restore_end_record_fifty(start, number_of_records) ==
    IF start + 50 > number_of_records
    THEN number_of_records ELSE start + 50

\* Lines 94-96.
restore_end_record(start, number_of_records) ==
    IF start + batch_size > number_of_records
    THEN number_of_records ELSE start + batch_size

\* Line 97: records[start_record:end_record:1]
restore_slice(record_list, start, end) == SubSeq(record_list, start + 1, end)

\* The descriptor without the record's EvaluateTargetHealth: False is sent.
restore_change_health_dropped(record) ==
    [Action |-> "UPSERT",
     ResourceRecordSet |->
        [AliasTarget |->
            [HostedZoneId |-> record.AliasTarget.HostedZoneId,
             EvaluateTargetHealth |-> FALSE,
             DNSName |-> record.AliasTarget.DNSName],
         Type |-> record.Type,
         Name |-> record.Name]]

\* Lines 100-109.
restore_change(record) ==
    [Action |-> "UPSERT",
     ResourceRecordSet |->
        [AliasTarget |->
            [HostedZoneId |-> record.AliasTarget.HostedZoneId,
             EvaluateTargetHealth |-> record.AliasTarget.EvaluateTargetHealth,
             DNSName |-> record.AliasTarget.DNSName],
         Type |-> record.Type,
         Name |-> record.Name]]

\* Lines 99-110.
restore_change_set(records_to_process) ==
    [i \in 1..Len(records_to_process) |-> restore_change(records_to_process[i])]

\* Lines 115-120: the batch was accepted and the loop goes on, or the provider
\* raised ClientError and the process exits.
RestoreResponse(ok, end_record) ==
    IF ok
    THEN /\ records_processed' = records_processed + (end_record - start_record)
         /\ start_record' = end_record
         /\ Goto("restore_loop")
    ELSE /\ Exit("ClientError")
         /\ UNCHANGED <<start_record, records_processed>>

\* Lines 91-120: one iteration of the loop.  A record without the keys read
\* raises KeyError before the batch is submitted.
RestoreBatch ==
    /\ pc = "restore_loop"
    /\ records_processed < Len(records.items)
    /\ LET end_record == restore_end_record(start_record, Len(records.items))
           records_to_process == restore_slice(records.items, start_record, end_record)
       IN  IF \/ Len(records_to_process) = 0
              \/ \E i \in 1..Len(records_to_process) :
                    ~HasDescriptorKeys(records_to_process[i])
           THEN /\ Crash("LookupError")
                /\ UNCHANGED <<calls, start_record, records_processed>>
           ELSE \E ok \in BOOLEAN :
                   /\ calls' = Append(calls,
                         Call("change_resource_record_sets",
                              records_to_process[1].AliasTarget.HostedZoneId,
                              restore_change_set(records_to_process), ok))
                   /\ RestoreResponse(ok, end_record)
    /\ UNCHANGED <<run, earlier, environ, zone_records, fs, restore_file, zone_name,
                   target_alias, keep_list, dryrun, KEEP_LIST, zone, record_set,
                   next_index, to_delete, temp_file, records>>

\* The else of line 288 lost: after the restore the delete workflow runs too.
RestoreDone_FallsThrough ==
    /\ pc = "restore_loop"
    /\ ~(records_processed < Len(records.items))
    /\ Goto("check_zone_name")
    /\ UNCHANGED <<run, earlier, environ, zone_records, calls, fs, locals>>

\* Line 91 false: lines 121 and 312 log COMPLETE.
RestoreDone ==
    /\ pc = "restore_loop"
    /\ ~(records_processed < Len(records.items))
    /\ Goto("complete")
    /\ UNCHANGED <<run, earlier, environ, zone_records, calls, fs, locals>>

(***************************************************************************)
(* The script is invoked again: a new process, the same files and provider.*)
(***************************************************************************)
RECURSIVE Submitted(_)
\* The changes of the batches the provider accepted, in submission order.
Submitted(log) ==
    IF Len(log) = 0 THEN <<>>
    ELSE (IF Head(log).op = "change_resource_record_sets" /\ Head(log).ok
          THEN Head(log).Changes ELSE <<>>) \o Submitted(Tail(log))

\* The change_resource_record_sets calls of the log, accepted or rejected.
ChangeBatches(log) == SelectSeq(log, LAMBDA c : c.op = "change_resource_record_sets")

Terminated == pc \in {"complete", "exit1", "crashed"}

NextInvocation ==
    /\ Terminated
    /\ run < MaxRuns
    /\ earlier' = IF restore_file = NoPath
                  THEN Append(earlier,
                          [pc |-> pc, snapshot |-> temp_file, dryrun |-> dryrun,
                           changes |-> Submitted(calls),
                           batches |-> ChangeBatches(calls)])
                  ELSE earlier
    /\ run' = run + 1
    /\ Goto("start")
    /\ restore_file' = NoPath
    /\ zone_name' = <<>>
    /\ target_alias' = <<>>
    /\ keep_list' = <<>>
    /\ dryrun' = FALSE
    /\ KEEP_LIST' = <<>>
    /\ zone' = NoZone
    /\ record_set' = <<>>
    /\ next_index' = 0
    /\ to_delete' = <<>>
    /\ temp_file' = NoPath
    /\ records' = NoValue
    /\ start_record' = 0
    /\ records_processed' = 0
    /\ calls' = <<>>
    /\ environ' = {}
    /\ UNCHANGED <<zone_records, fs>>

Next ==
    \/ CheckAccessKey
    \/ CheckSecretKey
    \/ SelectMode
    \/ CheckZoneName
    \/ CheckTargetAlias
    \/ BuildKeepList
    \/ ListHostedZones
    \/ GetHostedZone
    \/ ListFirstPage
    \/ ListNextPage
    \/ Filter
    \/ SnapshotCreate
    \/ SnapshotDump
    \/ SnapshotRename
    \/ SnapshotFail
    \/ CheckDryrun
    \/ DeleteBatch
    \/ DeleteDone
    \/ RestoreOpen
    \/ RestoreBatch
    \/ RestoreDone

\* One invocation of the script.
Spec == Init /\ [][Next]_vars

\* One invocation that is not held up: every provider call returns, the
\* interpreter keeps executing the script while a statement is left to execute.
SpecLive == Init /\ [][Next]_vars /\ WF_vars(Next)

NextAgain == Next \/ NextInvocation

\* An invocation followed by invocations with --restore.
SpecAgain == Init /\ [][NextAgain]_vars

(***************************************************************************)
(* expand_keep_list on its own (lines 14-17): the function applied to the  *)
(* module-level KEEP_LIST, again and again, with one zone name.  The list  *)
(* after each application is kept in earlier.                              *)
(***************************************************************************)
KeepEntries == { <<"k">>, <<"*">>, <<"a", ".", "b">> }

KeepLists == UNION { [1..n -> KeepEntries] : n \in 0..MaxKeep }

ExpandZoneNames == { <<"z">>, <<"z", ".">>, <<"q">>, <<"y", ".">> }

\* KEEP_LIST as lines 299-302 leave it, and the zone name of the command line.
InitExpand ==
    /\ pc = "expand_keep_list"
    /\ reason = ""
    /\ run = 1
    /\ earlier = <<>>
    /\ environ = {"AWS_ACCESS_KEY_ID", "AWS_SECRET_ACCESS_KEY"}
    /\ zone_records = <<>>
    /\ calls = <<>>
    /\ fs = <<>>
    /\ restore_file = NoPath
    /\ zone_name \in ExpandZoneNames
    /\ target_alias = <<>>
    /\ keep_list \in KeepLists
    /\ dryrun = FALSE
    /\ KEEP_LIST = append_keep_items(<<>>, keep_list)
    /\ zone = NoZone
    /\ record_set = <<>>
    /\ next_index = 0
    /\ to_delete = <<>>
    /\ temp_file = NoPath
    /\ records = NoValue
    /\ start_record = 0
    /\ records_processed = 0

\* expand_keep_list(zone_name): KEEP_LIST[:] is assigned in place.
ExpandKeepList ==
    /\ pc = "expand_keep_list"
    /\ Len(earlier) < MaxApply
    /\ KEEP_LIST' = expand_keep_list(KEEP_LIST, zone_name)
    /\ earlier' = Append(earlier, KEEP_LIST')
    /\ UNCHANGED <<pc, reason, run, environ, zone_records, calls, fs, restore_file,
                   zone_name, target_alias, keep_list, dryrun, zone, record_set,
                   next_index, to_delete, temp_file, records, start_record,
                   records_processed>>

NextExpand == ExpandKeepList

\* Repeated calls of expand_keep_list with one zone name.
SpecExpand == InitExpand /\ [][NextExpand]_vars

(***************************************************************************)
(* Properties.                                                             *)
(***************************************************************************)
DeleteMode == restore_file = NoPath
RestoreMode == restore_file # NoPath

\* The process is in r53_cleanup after the loop of lines 179-199.
AfterFilter ==
    /\ DeleteMode
    /\ \/ pc \in {"snapshot_create", "snapshot_dump", "snapshot_rename",
                  "check_dryrun", "delete_loop", "complete"}
       \/ pc = "crashed" /\ reason = "OSError"
       \/ pc = "exit1" /\ reason = "ClientError"

Members(list) == { list[i] : i \in 1..Len(list) }

\* The change-batch calls issued, accepted or rejected, in order.
ChangeCalls == SelectSeq(calls, LAMBDA c : c.op = "change_resource_record_sets")

RECURSIVE Flatten(_)
Flatten(batches) ==
    IF Len(batches) = 0 THEN <<>> ELSE Head(batches).Changes \o Flatten(Tail(batches))

\* Every change submitted, in submission order.
ChangesSent == Flatten(ChangeCalls)

\* A name with its trailing dot: appended when absent.
AppendDot(s) == IF Len(s) > 0 /\ s[Len(s)] = "." THEN s ELSE s \o <<".">>

\* The alias the filter compares with: the target alias ending with a dot.
NormalisedAlias == AppendDot(target_alias)

\* The apex name of the zone named on the command line.
ApexName == AppendDot(zone_name)

RECURSIVE LiteralWildcard(_)
\* A keep-list entry with every '*' in the provider's encoding \052.
LiteralWildcard(entry) ==
    IF Len(entry) = 0 THEN <<>>
    ELSE IF entry[1] = "*"
         THEN <<"\\", "0", "5", "2">> \o LiteralWildcard(SubSeq(entry, 2, Len(entry)))
         ELSE <<entry[1]>> \o LiteralWildcard(SubSeq(entry, 2, Len(entry)))

\* The names the user protects: each entry escaped, then '.' and the zone name.
ProtectedNames ==
    { LiteralWildcard(keep_list[i]) \o <<".">> \o ApexName : i \in 1..Len(keep_list) }

\* The five conditions of the record filter, on the process's state.
MeetsFilter(R) ==
    /\ R.Type = "A"
    /\ R.Name # zone.Name
    /\ R.Name \notin Members(KEEP_LIST)
    /\ "AliasTarget" \in DOMAIN R
    /\ R.AliasTarget.DNSName = NormalisedAlias

\* C1: after the filter has run, a record of the listing is in the deletion
\* candidate list if and only if it is of type A, is not the zone apex, is not in
\* the expanded KeepList, carries an AliasTarget and that AliasTarget's DNSName is
\* the target alias with a trailing dot; the candidates are those records in
\* listing order, and an A record without AliasTarget is never among them.
C1_FilterIff ==
    AfterFilter =>
        /\ \A i \in 1..Len(record_set) :
              (record_set[i] \in Members(to_delete)) <=> MeetsFilter(record_set[i])
        /\ to_delete = SelectSeq(record_set, MeetsFilter)
        /\ \A j \in 1..Len(to_delete) : "AliasTarget" \in DOMAIN to_delete[j]

\* The filter has run on a listing that holds a candidate, an A record without
\* AliasTarget and a record that fails another condition.
C1_Witness ==
    /\ AfterFilter
    /\ Len(to_delete) > 0
    /\ \E i \in 1..Len(record_set) :
          record_set[i].Type = "A" /\ "AliasTarget" \notin DOMAIN record_set[i]
    /\ Len(record_set) > Len(to_delete) + 1

\* C2: no DELETE change ever submitted names the zone apex or a name of the
\* KeepList (the user's entries, '*' escaped, '.' and the zone name appended);
\* every submitted DELETE is for a type A record whose alias target DNS name is
\* the normalised target alias.
C2_DeletesAreEligible ==
    DeleteMode =>
        \A i \in 1..Len(ChangesSent) :
            LET change == ChangesSent[i]
                R == change.ResourceRecordSet
            IN  /\ change.Action = "DELETE"
                /\ R.Name # ApexName
                /\ R.Name \notin ProtectedNames
                /\ R.Type = "A"
                /\ R.AliasTarget.DNSName = NormalisedAlias

\* A DELETE batch was submitted for a zone that holds the apex record and a
\* protected record, both pointing at the target alias.
C2_Witness ==
    /\ DeleteMode
    /\ Len(ChangesSent) > 0
    /\ \E i \in 1..Len(record_set) :
          /\ record_set[i].Name \in ProtectedNames
          /\ record_set[i].Type = "A"
          /\ "AliasTarget" \in DOMAIN record_set[i]
          /\ record_set[i].AliasTarget.DNSName = NormalisedAlias
    /\ \E i \in 1..Len(record_set) :
          /\ record_set[i].Name = ApexName
          /\ record_set[i].Type = "A"
          /\ "AliasTarget" \in DOMAIN record_set[i]
          /\ record_set[i].AliasTarget.DNSName = NormalisedAlias

\* The snapshot file is at its final path and holds the whole candidate list.
SnapshotComplete ==
    /\ temp_file.ext = ".yaml"
    /\ temp_file \in DOMAIN fs
    /\ TempPath(temp_file.id) \notin DOMAIN fs
    /\ yaml_load(fs[temp_file]) = [type |-> "list", items |-> to_delete]

SnapshotFailed == DeleteMode /\ pc = "crashed" /\ reason = "OSError"

\* C3: in the delete workflow the snapshot file is completely written and renamed
\* to its final path before any DELETE batch is submitted (the step that submits
\* a batch starts in a state where the snapshot is complete), and when writing
\* the snapshot fails the run has submitted, and submits, no change batch.
C3_SnapshotBeforeDelete ==
    /\ [](SnapshotFailed => Len(ChangeCalls) = 0)
    /\ [][(DeleteMode /\ Len(ChangeCalls') > Len(ChangeCalls)) => SnapshotComplete]_vars
    /\ [](DeleteMode /\ Len(ChangeCalls) > 0 => SnapshotComplete)

\* A first DELETE batch has been submitted for a non-empty candidate list.
C3_Witness ==
    /\ DeleteMode
    /\ Len(ChangeCalls) = 1
    /\ Len(to_delete) > 0
    /\ SnapshotComplete

\* The candidates by the filter's conditions, from the listing.
ExpectedCandidates == SelectSeq(record_set, MeetsFilter)

\* C4: with --dryrun the delete workflow issues no change-submission call, and
\* when it completes the snapshot file holds exactly the filtered candidates.
C4_DryrunDeletesNothing ==
    (DeleteMode /\ dryrun) =>
        /\ Len(ChangeCalls) = 0
        /\ pc = "complete"
        /\ SnapshotComplete
        /\ yaml_load(fs[temp_file]).items = ExpectedCandidates

\* A dry run over three listed records of which exactly one is a candidate.
C4_Witness ==
    /\ DeleteMode
    /\ dryrun
    /\ pc = "complete"
    /\ Len(record_set) = 3
    /\ Len(yaml_load(fs[temp_file]).items) = 1

\* The delete workflow has returned from delete_records with no batch rejected.
DeleteCompleted == DeleteMode /\ pc = "complete" /\ ~dryrun

\* Name, Type and the three AliasTarget fields: what a change entry carries.
Descriptor(R) ==
    [Name |-> R.Name,
     Type |-> R.Type,
     AliasTarget |->
        [HostedZoneId |-> R.AliasTarget.HostedZoneId,
         DNSName |-> R.AliasTarget.DNSName,
         EvaluateTargetHealth |-> R.AliasTarget.EvaluateTargetHealth]]

Descriptors(list) == [i \in 1..Len(list) |-> Descriptor(list[i])]

\* The records of the changes, in order.
RecordsOf(changes) == [i \in 1..Len(changes) |-> changes[i].ResourceRecordSet]

\* ceil(n / c)
CeilDiv(n, c) == (n + c - 1) \div c

IsPrefix(s, t) == Len(s) <= Len(t) /\ \A i \in 1..Len(s) : s[i] = t[i]

\* The records the snapshot file of this run holds.
SnapshotRecords == yaml_load(fs[temp_file]).items

\* C6: the snapshot of a delete run records exactly the records submitted for
\* deletion.  Whenever DELETE changes have been submitted, the snapshot file
\* holds the candidate list and the records submitted so far are, entry by
\* entry, the first records of the snapshot (in the Name, Type and AliasTarget a
\* change carries); when a delete that is not a dry run completes, the records
\* submitted are all the records of the snapshot, in order.
C6_SnapshotIsWhatIsDeleted ==
    /\ (DeleteMode /\ Len(ChangesSent) > 0) =>
          /\ temp_file \in DOMAIN fs
          /\ SnapshotRecords = to_delete
          /\ IsPrefix(RecordsOf(ChangesSent), Descriptors(SnapshotRecords))
    /\ DeleteCompleted =>
          /\ temp_file \in DOMAIN fs
          /\ Len(ChangesSent) = Len(SnapshotRecords)
          /\ RecordsOf(ChangesSent) = Descriptors(SnapshotRecords)

\* A delete of several records completed, one of them a weighted record whose
\* snapshot entry has fields the change does not carry.
C6_Witness ==
    /\ DeleteCompleted
    /\ Len(ChangesSent) >= 2
    /\ \E i \in 1..Len(SnapshotRecords) : "Weight" \in DOMAIN SnapshotRecords[i]

\* The list the batch loop of this process walks.
ListInHand == IF DeleteMode THEN to_delete ELSE records.items

\* C7: when the provider rejects the change batch of chunk k, in delete_records
\* or in restore_deleted_records, the rejected call is the last call the process
\* issues, the process is in exit(1) and not COMPLETE, the k-1 batches before it
\* were accepted and cover the first (k-1)*100 records, and every call issued
\* carries the run's own action (no compensating call).
C7_RejectionAborts ==
    \A k \in 1..Len(ChangeCalls) :
        ~ChangeCalls[k].ok =>
            /\ k = Len(ChangeCalls)
            /\ calls[Len(calls)] = ChangeCalls[k]
            /\ pc = "exit1"
            /\ reason = "ClientError"
            /\ \A j \in 1..(k - 1) : ChangeCalls[j].ok
            /\ Len(Submitted(calls)) = (k - 1) * 100
            /\ RecordsOf(Submitted(calls)) =
                  Descriptors(SubSeq(ListInHand, 1, (k - 1) * 100))
            /\ \A i \in 1..Len(ChangesSent) :
                  ChangesSent[i].Action = IF DeleteMode THEN "DELETE" ELSE "UPSERT"

\* The second batch of a delete was rejected after the first was accepted.
C7_Witness ==
    /\ DeleteMode
    /\ Len(ChangeCalls) = 2
    /\ ChangeCalls[1].ok
    /\ ~ChangeCalls[2].ok

\* A record restore can read: Name, Type and the three AliasTarget fields.
ReadableRecord(R) ==
    /\ "Name" \in DOMAIN R
    /\ "Type" \in DOMAIN R
    /\ "AliasTarget" \in DOMAIN R
    /\ "HostedZoneId" \in DOMAIN R.AliasTarget
    /\ "DNSName" \in DOMAIN R.AliasTarget
    /\ "EvaluateTargetHealth" \in DOMAIN R.AliasTarget

\* The file at p exists and holds a list of records restore can read.
WellFormedSnapshot(p) ==
    /\ Exists(fs, p)
    /\ LET value == yaml_load(Content(fs, p))
       IN  /\ value.type = "list"
           /\ \A i \in 1..Len(value.items) : ReadableRecord(value.items[i])

\* C8: in the restore workflow a missing file, or a file that is not a
\* well-formed record list (a record anywhere in it lacking AliasTarget, Name or
\* Type included), is fatal before any UPSERT: no UPSERT batch is submitted.
C8_InvalidFileNoUpsert ==
    (RestoreMode /\ ~WellFormedSnapshot(restore_file)) => Len(ChangeCalls) = 0

\* The configuration errors: exit(1) of lines 272, 280, 291, 295 and 78.
ConfigError ==
    /\ pc = "exit1"
    /\ reason \in {"no_access_key", "no_secret_key", "no_zone_name",
                   "no_target_alias", "invalid_path"}

\* C9: a configuration error ends the process before any provider call: a
\* process that ended on missing credentials, zone name, target alias or restore
\* file has issued no call, and a process that has issued a call has both
\* credentials and, in delete mode, a zone name and a target alias, in restore
\* mode, a restore file that exists.
C9_ConfigErrorsBeforeCalls ==
    /\ ConfigError => Len(calls) = 0
    /\ Len(calls) > 0 =>
          /\ environ = {"AWS_ACCESS_KEY_ID", "AWS_SECRET_ACCESS_KEY"}
          /\ IF RestoreMode
             THEN Exists(fs, restore_file)
             ELSE Len(zone_name) > 0 /\ Len(target_alias) > 0

\* With credentials and a zone name, the target alias is missing.
C9_Witness ==
    /\ ConfigError
    /\ reason = "no_target_alias"
    /\ environ = {"AWS_ACCESS_KEY_ID", "AWS_SECRET_ACCESS_KEY"}
    /\ Len(zone_name) > 0

\* An earlier delete run that completed, not as a dry run, and wrote the file
\* this process restores.
CompletedDeleteOf(p) ==
    { k \in 1..Len(earlier) :
        /\ earlier[k].snapshot = p
        /\ earlier[k].pc = "complete"
        /\ ~earlier[k].dryrun }

\* C10: the list read back from a snapshot is the list written, in order and in
\* the Name, Type and AliasTarget fields, empty or not; and a restore that
\* completes on the snapshot of a completed delete run UPSERTs exactly the
\* records that run DELETEd, in the same order, one change per record of the
\* snapshot, extra fields of the snapshot ignored.
C10_RoundTrip ==
    /\ (DeleteMode /\ temp_file.ext = ".yaml") =>
          /\ yaml_load(fs[temp_file]).type = "list"
          /\ Len(SnapshotRecords) = Len(to_delete)
          /\ Descriptors(SnapshotRecords) = Descriptors(to_delete)
    /\ (RestoreMode /\ pc = "complete") =>
          \A k \in CompletedDeleteOf(restore_file) :
              /\ Len(ChangesSent) = Len(records.items)
              /\ \A i \in 1..Len(ChangesSent) : ChangesSent[i].Action = "UPSERT"
              /\ RecordsOf(ChangesSent) = RecordsOf(earlier[k].changes)

\* A restore completed on the snapshot of a completed delete of several records,
\* one of them with fields the restore ignores and a checked target health.
C10_Witness ==
    /\ RestoreMode
    /\ pc = "complete"
    /\ CompletedDeleteOf(restore_file) # {}
    /\ Len(ChangesSent) >= 2
    /\ \E i \in 1..Len(records.items) :
          /\ "Weight" \in DOMAIN records.items[i]
          /\ records.items[i].AliasTarget.EvaluateTargetHealth

\* C11: expanding the KeepList is idempotent: the list after a second application
\* of expand_keep_list with the same zone name is the list after the first one;
\* the zone name is not appended a second time.
C11_ExpandIdempotent ==
    (pc = "expand_keep_list" /\ Len(earlier) >= 2) => earlier[2] = earlier[1]

\* The other spelling of a name: without its trailing dot, or with one appended.
Twin(s) ==
    IF Len(s) > 0 /\ s[Len(s)] = "." THEN SubSeq(s, 1, Len(s) - 1) ELSE s \o <<".">>

\* The process has built KEEP_LIST (lines 299-305).
KeepListBuilt ==
    /\ DeleteMode
    /\ Len(zone_name) > 0
    /\ Len(target_alias) > 0
    /\ pc \notin {"start", "check_secret", "select_mode", "check_zone_name",
                   "check_target_alias", "keep_list"}

\* list_hosted_zones answered and no zone of the account has the name.
ZoneNotListed ==
    /\ DeleteMode
    /\ pc = "crashed"
    /\ reason = "TypeError"
    /\ Len(calls) = 1
    /\ calls[1].ok

\* C12: a run with the zone name, or the target alias, spelled without its
\* trailing dot and a run with it spelled with the dot do the same: the expanded
\* KeepList the process holds is the expansion of the same entries under the
\* other spelling of the zone name, the hosted zone it resolved is the zone the
\* other spelling resolves (and none when it found none), and the candidates it
\* selected are those the other spelling of the target alias selects.
C12_TrailingDot ==
    /\ KeepListBuilt =>
          KEEP_LIST =
             IF Len(keep_list) = 0 THEN <<>>
             ELSE expand_keep_list(append_keep_items(<<>>, keep_list), Twin(zone_name))
    /\ (DeleteMode /\ zone # NoZone) =>
          /\ Len(MatchingZones(HostedZones, Twin(zone_name))) > 0
          /\ MatchingZones(HostedZones, Twin(zone_name))[1].Id = zone.Id
          /\ MatchingZones(HostedZones, Twin(zone_name))[1].Name = zone.Name
    /\ ZoneNotListed => Len(MatchingZones(HostedZones, Twin(zone_name))) = 0
    /\ AfterFilter =>
          to_delete = FilterRecords(record_set, zone, Twin(target_alias), KEEP_LIST)

\* The filter has run for a zone name and a target alias both given without
\* the trailing dot, with a keep list that protected a record of the listing
\* and with a candidate found.
C12_Witness ==
    /\ AfterFilter
    /\ zone_name = <<"z">>
    /\ target_alias = <<"t">>
    /\ Len(keep_list) > 0
    /\ Len(to_delete) > 0
    /\ \E i \in 1..Len(record_set) : record_set[i].Name \in Members(KEEP_LIST)

\* The calls of the given operation this process issued.
CallsOf(op) == SelectSeq(calls, LAMBDA c : c.op = op)

\* get_hosted_zone_by_name has returned without a zone: list_hosted_zones
\* failed or listed no zone of that name, or get_hosted_zone failed.
ZoneUnresolved ==
    /\ DeleteMode
    /\ Len(calls) > 0
    /\ zone = NoZone
    /\ \/ ~calls[Len(calls)].ok
       \/ Len(CallsOf("get_hosted_zone")) = 0 /\ pc # "get_zone"

\* C13: when the zone cannot be resolved (the zone list cannot be read, holds no
\* zone of that name, or the zone lookup fails) the delete workflow ends there:
\* the process has aborted, no record listing was requested, no snapshot file
\* was created and no change batch was submitted; and a process that listed
\* records has a resolved zone.
C13_UnresolvedZoneIsFatal ==
    /\ ZoneUnresolved =>
          /\ pc = "crashed"
          /\ Len(CallsOf("list_resource_record_sets")) = 0
          /\ Len(ChangeCalls) = 0
          /\ temp_file = NoPath
          /\ DOMAIN fs = {}
          /\ record_set = <<>>
          /\ to_delete = <<>>
    /\ (DeleteMode /\ Len(CallsOf("list_resource_record_sets")) > 0) =>
          /\ zone # NoZone
          /\ \E i \in 1..Len(HostedZones) :
                HostedZones[i].Id = zone.Id /\ HostedZones[i].Name = ApexName

\* The zone is in the account's list and its lookup failed.
C13_Witness ==
    /\ ZoneUnresolved
    /\ Len(CallsOf("get_hosted_zone")) = 1
    /\ ~calls[Len(calls)].ok
    /\ Len(keep_list) > 0

\* The actions of the changes in the batches submitted, accepted or rejected.
ActionsSent == { ChangesSent[i].Action : i \in 1..Len(ChangesSent) }

\* No step of the delete workflow has left a trace in the process.
DeleteWorkflowUntouched ==
    /\ zone_name = <<>>
    /\ target_alias = <<>>
    /\ KEEP_LIST = <<>>
    /\ zone = NoZone
    /\ record_set = <<>>
    /\ to_delete = <<>>
    /\ temp_file = NoPath
    /\ DOMAIN fs = {}

\* No step of the restore workflow has left a trace in the process.
RestoreWorkflowUntouched == records = NoValue

\* C14: one workflow runs per invocation.  A process given a restore file
\* issues no call but change submissions, all of them UPSERT, and does nothing
\* of the delete workflow (no zone lookup, no listing, no filter, no snapshot);
\* a process without one submits only DELETE changes and reads no record file.
C14_OneWorkflow ==
    /\ RestoreMode =>
          /\ Len(ChangeCalls) = Len(calls)
          /\ ActionsSent \subseteq {"UPSERT"}
          /\ DeleteWorkflowUntouched
          /\ pc \in {"restore_open", "restore_loop", "complete", "exit1", "crashed"}
    /\ DeleteMode =>
          /\ ActionsSent \subseteq {"DELETE"}
          /\ RestoreWorkflowUntouched
          /\ pc \notin {"restore_open", "restore_loop"}

\* A restore of several batches has completed.
C14_Witness ==
    /\ RestoreMode
    /\ pc = "complete"
    /\ Len(ChangeCalls) = 2
    /\ Len(calls) = 2

\* get_all_records_in_zone has returned to r53_cleanup.
ListingReturned ==
    /\ DeleteMode
    /\ Len(CallsOf("list_resource_record_sets")) > 0
    /\ pc \notin {"list_first", "list_next"}

\* C15: the listing is all-or-nothing: what get_all_records_in_zone hands to
\* r53_cleanup is the complete record set of the zone or, when a page fetch
\* failed, no record at all; the filter, the snapshot and the deletes never work
\* from a part of the zone's records.
C15_ListingAllOrNothing ==
    ListingReturned => (record_set = zone_records \/ record_set = <<>>)

\* The earlier delete runs, dry runs excluded, that wrote the file at p.
DeleteRunsOf(p) ==
    { k \in 1..Len(earlier) : earlier[k].snapshot = p /\ ~earlier[k].dryrun }

Min(a, b) == IF a < b THEN a ELSE b

\* Batch b of the restore and batch b of the delete are addressed to the same
\* zone id and hold the same records at the same positions, as UPSERT and DELETE.
SameBatch(up, del) ==
    /\ up.HostedZoneId = del.HostedZoneId
    /\ Len(up.Changes) = Len(del.Changes)
    /\ \A i \in 1..Len(up.Changes) :
          /\ up.Changes[i].ResourceRecordSet = del.Changes[i].ResourceRecordSet
          /\ up.Changes[i].Action = "UPSERT"
          /\ del.Changes[i].Action = "DELETE"

AliasZoneIds(call) ==
    { call.Changes[i].ResourceRecordSet.AliasTarget.HostedZoneId :
        i \in 1..Len(call.Changes) }

\* C17: in every change batch submitted, by delete_records or by
\* restore_deleted_records, every record has the alias-target zone id the batch
\* is addressed to (that of the first record of the chunk): no batch holds
\* records whose alias-target zone ids differ.
C17_BatchSharesZoneId ==
    \A b \in 1..Len(ChangeCalls) :
        AliasZoneIds(ChangeCalls[b]) = {ChangeCalls[b].HostedZoneId}

\* The id names the zone: as the provider returns it or without its prefix.
NamesZone(id, z) == id = z.Id \/ "/hostedzone/" \o id = z.Id

\* C18: the delete workflow changes only the zone it was given: every DELETE
\* batch it submits is addressed to the id of the hosted zone it resolved from
\* the zone name, whose records it listed and filtered, never to another id.
C18_DeletesAddressNamedZone ==
    DeleteMode =>
        \A b \in 1..Len(ChangeCalls) :
            /\ zone.Name = ApexName
            /\ NamesZone(ChangeCalls[b].HostedZoneId, zone)

\* The delete workflow has been entered (line 289).
DeleteStarted == DeleteMode /\ pc = "check_zone_name"

\* C19: when every provider call returns and the listing reaches a page that is
\* not truncated, a run of the delete workflow ends, COMPLETE or aborted, and an
\* ended process takes no further step.  The pagination loop advances with every
\* page; the batch loop of delete_records advances with every accepted
\* batch, has start_record equal to records_processed at every loop head, never
\* submits an empty batch and, when it ends normally, has records_processed
\* equal to the length of the list; an empty list completes with no submission.
C19_DeleteTerminates ==
    /\ DeleteStarted ~> Terminated
    /\ [][~Terminated]_vars
    /\ [][(pc = "list_next" /\ pc' = "list_next") => next_index' > next_index]_vars
    /\ [][(DeleteMode /\ pc = "delete_loop" /\ pc' = "delete_loop") =>
            records_processed' > records_processed]_vars
    /\ []((DeleteMode /\ pc = "delete_loop") =>
            /\ start_record = records_processed
            /\ records_processed <= Len(to_delete))
    /\ [](DeleteMode => \A b \in 1..Len(ChangeCalls) : Len(ChangeCalls[b].Changes) > 0)
    /\ [](DeleteCompleted =>
            /\ records_processed = Len(to_delete)
            /\ start_record = records_processed
            /\ (Len(to_delete) = 0 => Len(ChangeCalls) = 0))

\* A delete completed after three listing pages and three accepted batches.
C19_Witness ==
    /\ DeleteCompleted
    /\ Len(CallsOf("list_resource_record_sets")) = 3
    /\ Len(ChangeCalls) = 3
    /\ records_processed = Len(to_delete)

====
